---------------------------- MODULE Spec2Model ----------------------------
(***************************************************************************)
(* Car price predictor: the prediction request pipeline.                   *)
(*                                                                         *)
(*   app/utils/validators.py      validate_vehicle_data                    *)
(*   app/models/model_manager.py  ModelManager (load, predict, validate,   *)
(*                                confidence)                              *)
(*   app/api/routes.py            init_model_manager, predict_price        *)
(*   app/__init__.py, app.py      create_app, main                         *)
(*                                                                         *)
(* Numbers that may be floats are kept in halves (x is stored as 2*x), so  *)
(* that 2030.5 and -0.5 are representable and int() has something to       *)
(* truncate.  Confidence is kept in hundredths (0.8 is 80).                *)
(***************************************************************************)
EXTENDS Integers, Sequences, FiniteSets, TLC

VARIABLES
    host,            \* the process of app.py: "imported", "serving", "exited"
    exit_exc,        \* the exception type that ended the process, or "None"
    model_manager,   \* routes.model_manager, the module-level global
    clock,           \* pd.Timestamp.now(), as a counter
    init_result,     \* the last ModelManager construction: what it raised, and self
    op,              \* the operation that ran last
    input,           \* the mapping (or request body) the last operation was given
    is_json,         \* request.is_json of the last HTTP request
    validation,      \* what validate_vehicle_data returned
    raised,          \* what ModelManager._validate_input raised
    result,          \* what ModelManager.predict or get_model_info returned
    response,        \* what the route handler answered: [status, body]
    artifact_calls,  \* the invocations of the artifact's predict made by the last operation
    last_prediction, \* the prediction handed to _calculate_confidence
    confidence,      \* what ModelManager._calculate_confidence returned
    callers          \* the request threads inside model_manager.predict, and what they hold

vars == <<host, exit_exc, model_manager, clock, init_result, op, input, is_json,
          validation, raised, result, response, artifact_calls, last_prediction,
          confidence, callers>>

-----------------------------------------------------------------------------
(* Untyped JSON-like values.  One record shape for all of them:            *)
(*   t = "int"   : the integer n                                           *)
(*   t = "float" : the float n/2                                           *)
(*   t = "str"   : the string whose characters are s                       *)
(*   t = "none"  : None                                                    *)

IntV(n) == [t |-> "int", n |-> n, s |-> <<>>]
FloatV(h) == [t |-> "float", n |-> h, s |-> <<>>]
StrV(chars) == [t |-> "str", n |-> 0, s |-> chars]
NoneV == [t |-> "none", n |-> 0, s |-> <<>>]

\* isinstance(v, (int, float))
IsNumber(v) == v.t \in {"int", "float"}

\* The value of a number in halves.
Halves(v) == IF v.t = "int" THEN 2 * v.n ELSE v.n

Digits == <<"0", "1", "2", "3", "4", "5", "6", "7", "8", "9">>

IsDigit(c) == \E i \in 1..10 : Digits[i] = c

DigitVal(c) == (CHOOSE i \in 1..10 : Digits[i] = c) - 1

RECURSIVE ParseDigits(_, _)
ParseDigits(chars, acc) ==
    IF chars = <<>> THEN acc
    ELSE ParseDigits(Tail(chars), 10 * acc + DigitVal(Head(chars)))

\* int(v): [ok, val, exc].  A float truncates toward zero, a string parses as an
\* optionally signed run of digits (ValueError otherwise), None is a TypeError.
TruncHalves(h) == IF h >= 0 THEN h \div 2 ELSE -((-h) \div 2)

IntCoerce(v) ==
    CASE v.t = "int" -> [ok |-> TRUE, val |-> v.n, exc |-> "None"]
      [] v.t = "float" -> [ok |-> TRUE, val |-> TruncHalves(v.n), exc |-> "None"]
      [] v.t = "str" ->
            LET neg == v.s /= <<>> /\ Head(v.s) = "-"
                body == IF neg THEN Tail(v.s) ELSE v.s
            IN  IF body /= <<>> /\ \A i \in 1..Len(body) : IsDigit(body[i])
                THEN [ok |-> TRUE,
                      val |-> IF neg THEN -ParseDigits(body, 0) ELSE ParseDigits(body, 0),
                      exc |-> "None"]
                ELSE [ok |-> FALSE, val |-> 0, exc |-> "ValueError"]
      [] OTHER -> [ok |-> FALSE, val |-> 0, exc |-> "TypeError"]

-----------------------------------------------------------------------------
(* The schema constants.                                                   *)

required_fields ==
    <<"Brand", "Model", "Year", "KM_Driven", "Fuel", "Seller_Type", "Transmission", "Owner">>

Required == {required_fields[i] : i \in 1..Len(required_fields)}

valid_brands ==
    <<"Toyota", "Honda", "Ford", "BMW", "Mercedes", "Audi", "Volkswagen", "Hyundai">>
valid_models == <<"Sedan", "SUV", "Hatchback", "Coupe", "Truck", "Convertible">>
valid_fuels == <<"Petrol", "Diesel", "Electric", "Hybrid">>
valid_sellers == <<"Individual", "Dealer", "Trustmark Dealer">>
valid_transmissions == <<"Manual", "Automatic">>
valid_owners == <<"First Owner", "Second Owner", "Third Owner", "Fourth & Above Owner">>

YearMin == 1900
YearMax == 2030
KmMin == 0

\* x in a_list
InList(x, list) == \E i \in 1..Len(list) : list[i] = x

\* An error message: its fixed text and what the f-string interpolates.
Msg(text, arg) == [text |-> text, arg |-> arg]

NoMsg == Msg("", <<>>)

-----------------------------------------------------------------------------
(* app/utils/validators.py                                                 *)

\* Mutant of YearErrors: the lower bound is exclusive, so 1900 is rejected.
YearErrors_ExclusiveLower(data) ==
    LET c == IntCoerce(data["Year"])
    IN  IF ~c.ok THEN <<Msg("Year must be a valid integer", <<>>)>>
        ELSE IF c.val <= YearMin \/ c.val > YearMax
             THEN <<Msg("Year must be between 1900 and 2030", <<>>)>>
             ELSE <<>>

\* The year check of validate_vehicle_data: the messages it appends.
YearErrors(data) ==
    LET c == IntCoerce(data["Year"])
    IN  IF ~c.ok THEN <<Msg("Year must be a valid integer", <<>>)>>
        ELSE IF c.val < YearMin \/ c.val > YearMax
             THEN <<Msg("Year must be between 1900 and 2030", <<>>)>>
             ELSE <<>>

\* The mileage check of validate_vehicle_data.
KmErrors(data) ==
    LET c == IntCoerce(data["KM_Driven"])
    IN  IF ~c.ok THEN <<Msg("KM_Driven must be a valid integer", <<>>)>>
        ELSE IF c.val < KmMin
             THEN <<Msg("KM_Driven must be non-negative", <<>>)>>
             ELSE <<>>

\* One categorical check: `if data[field] not in valid: errors.append(...)`.
EnumErrors(data, field, valid, text) ==
    IF ~InList(data[field], valid) THEN <<Msg(text, valid)>> ELSE <<>>

\* Mutant of MissingErrors: the loop stops at the first absent field.
MissingErrors_FirstOnly(data, fields) ==
    LET absent == SelectSeq(fields, LAMBDA f : f \notin DOMAIN data)
    IN  IF absent = <<>> THEN <<>>
        ELSE <<Msg("Missing required field: ", <<Head(absent)>>)>>

\* The loop over required_fields: one message per absent field, in order.
RECURSIVE MissingErrors(_, _)
MissingErrors(data, fields) ==
    IF fields = <<>> THEN <<>>
    ELSE (IF Head(fields) \notin DOMAIN data
          THEN <<Msg("Missing required field: ", <<Head(fields)>>)>>
          ELSE <<>>) \o MissingErrors(data, Tail(fields))

\* validate_vehicle_data(data) -> (is_valid, errors)
validate_vehicle_data(data) ==
    LET missing == MissingErrors(data, required_fields)
    IN  IF missing /= <<>> THEN [valid |-> FALSE, errors |-> missing]
        ELSE LET errors ==
                     YearErrors(data) \o KmErrors(data)
                     \o EnumErrors(data, "Brand", valid_brands, "Invalid brand. Must be one of: ")
                     \o EnumErrors(data, "Model", valid_models, "Invalid model. Must be one of: ")
                     \o EnumErrors(data, "Fuel", valid_fuels, "Invalid fuel type. Must be one of: ")
                     \o EnumErrors(data, "Seller_Type", valid_sellers,
                                   "Invalid seller type. Must be one of: ")
                     \o EnumErrors(data, "Transmission", valid_transmissions,
                                   "Invalid transmission. Must be one of: ")
                     \o EnumErrors(data, "Owner", valid_owners,
                                   "Invalid owner type. Must be one of: ")
             IN  [valid |-> Len(errors) = 0, errors |-> errors]

-----------------------------------------------------------------------------
(* app/models/model_manager.py: ModelManager._validate_input               *)

\* [field for field in required_fields if field not in input_data]
missing_fields(input_data) ==
    SelectSeq(required_fields, LAMBDA f : f \notin DOMAIN input_data)

\* The Year test: not a number, or below 1900, or above 2030.
YearRejected(input_data) ==
    \/ ~IsNumber(input_data["Year"])
    \/ Halves(input_data["Year"]) < 2 * YearMin
    \/ Halves(input_data["Year"]) > 2 * YearMax

\* The KM_Driven test: not a number, or negative.
KmRejected(input_data) ==
    \/ ~IsNumber(input_data["KM_Driven"])
    \/ Halves(input_data["KM_Driven"]) < 2 * KmMin

\* _validate_input(input_data): the ValueError it raises, if any.  Each check
\* raises at once, so the first failing check decides the message.
ValidateInput(input_data) ==
    IF missing_fields(input_data) /= <<>>
    THEN [raised |-> TRUE, msg |-> Msg("Missing required fields: ", missing_fields(input_data))]
    ELSE IF YearRejected(input_data)
    THEN [raised |-> TRUE, msg |-> Msg("Year must be a number between 1900 and 2030", <<>>)]
    ELSE IF KmRejected(input_data)
    THEN [raised |-> TRUE, msg |-> Msg("KM_Driven must be a non-negative number", <<>>)]
    ELSE IF ~InList(input_data["Brand"], valid_brands)
    THEN [raised |-> TRUE, msg |-> Msg("Invalid brand. Must be one of: ", valid_brands)]
    ELSE IF ~InList(input_data["Fuel"], valid_fuels)
    THEN [raised |-> TRUE, msg |-> Msg("Invalid fuel type. Must be one of: ", valid_fuels)]
    ELSE [raised |-> FALSE, msg |-> NoMsg]

-----------------------------------------------------------------------------
(* app/models/model_manager.py: ModelManager._calculate_confidence         *)

BaseConfidence == 80
DefaultYear == 2020
DefaultKm == 50000

\* input_data.get(key, default)
Get(input_data, key, default) ==
    IF key \in DOMAIN input_data THEN input_data[key] ELSE default

\* Mutant of YearAdjust: the upper breakpoint is exclusive, so 2023 gets nothing.
YearAdjust_ExclusiveUpper(year) ==
    IF 2 * 2015 <= Halves(year) /\ Halves(year) < 2 * 2023 THEN 10
    ELSE IF Halves(year) < 2 * 2010 THEN -10
    ELSE 0

\* The year adjustment: `if 2015 <= year <= 2023: +0.1; elif year < 2010: -0.1`.
YearAdjust(year) ==
    IF 2 * 2015 <= Halves(year) /\ Halves(year) <= 2 * 2023 THEN 10
    ELSE IF Halves(year) < 2 * 2010 THEN -10
    ELSE 0

\* Mutant of KmAdjust: the penalty is written 0.5 for 0.05.
KmAdjust_MisplacedDecimal(km_driven) ==
    IF Halves(km_driven) < 2 * 100000 THEN 5
    ELSE IF Halves(km_driven) > 2 * 200000 THEN -50
    ELSE 0

\* The mileage adjustment: `if km < 100000: +0.05; elif km > 200000: -0.05`.
KmAdjust(km_driven) ==
    IF Halves(km_driven) < 2 * 100000 THEN 5
    ELSE IF Halves(km_driven) > 2 * 200000 THEN -5
    ELSE 0

Max2(a, b) == IF a >= b THEN a ELSE b
Min2(a, b) == IF a <= b THEN a ELSE b

\* Mutant of CalculateConfidence: the mileage adjustment is left out.
CalculateConfidence_NoMileage(prediction, input_data) ==
    LET year == Get(input_data, "Year", IntV(DefaultYear))
    IN  Max2(10, Min2(100, BaseConfidence + YearAdjust(year)))

\* _calculate_confidence(prediction, input_data), in hundredths.
CalculateConfidence(prediction, input_data) ==
    LET year == Get(input_data, "Year", IntV(DefaultYear))
        km_driven == Get(input_data, "KM_Driven", IntV(DefaultKm))
    IN  Max2(10, Min2(100, BaseConfidence + YearAdjust(year) + KmAdjust(km_driven)))

-----------------------------------------------------------------------------
(* app/models/model_manager.py: ModelManager.__init__ and _load_model      *)

\* The configured MODEL_PATH.
ModelPath == "models/vehicle_price_model.pkl"

\* self.model = None; type(None).__name__ is "NoneType".
NoneModel == [type_name |-> "NoneType", features |-> "absent"]

\* What a blob may unpickle to: an object with no feature_names_in_, with an
\* ndarray of names, or with a plain list of names (which has no tolist()).
Artifacts == {[type_name |-> "Pipeline", features |-> f] : f \in {"absent", "ndarray", "list"}}

NoNames == [is_none |-> TRUE, names |-> <<>>]

EmptyMetadata == [is_empty |-> TRUE, model_type |-> "", loaded_at |-> 0, model_path |-> ""]

\* The fields __init__ sets before it calls _load_model.
NewSelf(model_path) ==
    [exists |-> TRUE, model_path |-> model_path, model |-> NoneModel,
     feature_names |-> NoNames, model_metadata |-> EmptyMetadata]

\* routes.model_manager = None
NoManager ==
    [exists |-> FALSE, model_path |-> "", model |-> NoneModel,
     feature_names |-> NoNames, model_metadata |-> EmptyMetadata]

\* What the file system and pickle answer at one load: whether the path exists,
\* what open() raises, what pickle.load raises, and the object it returns.
Disks ==
    {[exists |-> FALSE, open_exc |-> "None", pickle_exc |-> "None", artifact |-> NoneModel]}
    \cup {[exists |-> TRUE, open_exc |-> e, pickle_exc |-> "None", artifact |-> NoneModel] :
            e \in {"PermissionError", "IsADirectoryError"}}
    \cup {[exists |-> TRUE, open_exc |-> "None", pickle_exc |-> e, artifact |-> NoneModel] :
            e \in {"UnpicklingError", "EOFError"}}
    \cup {[exists |-> TRUE, open_exc |-> "None", pickle_exc |-> "None", artifact |-> a] :
            a \in Artifacts}

\* Mutant of LoadModel: the metadata is stored before the file is read.
LoadModel_MetadataFirst(self, disk, now) ==
    LET early == [self EXCEPT !.model_metadata =
                      [is_empty |-> FALSE, model_type |-> self.model.type_name,
                       loaded_at |-> now, model_path |-> self.model_path]]
    IN  IF ~disk.exists THEN [exc |-> "FileNotFoundError", self |-> early]
        ELSE IF disk.open_exc /= "None" THEN [exc |-> disk.open_exc, self |-> early]
        ELSE IF disk.pickle_exc /= "None" THEN [exc |-> disk.pickle_exc, self |-> early]
        ELSE LET loaded == [early EXCEPT !.model = disk.artifact,
                                         !.model_metadata.model_type = disk.artifact.type_name]
             IN  IF disk.artifact.features = "list"
                 THEN [exc |-> "AttributeError", self |-> loaded]
                 ELSE [exc |-> "None",
                       self |-> [loaded EXCEPT
                           !.feature_names =
                               IF disk.artifact.features = "ndarray"
                               THEN [is_none |-> FALSE, names |-> required_fields]
                               ELSE NoNames]]

\* _load_model(self): the exception it re-raises ("None" when it returns) and
\* self as the method leaves it.
LoadModel(self, disk, now) ==
    IF ~disk.exists THEN [exc |-> "FileNotFoundError", self |-> self]
    ELSE IF disk.open_exc /= "None" THEN [exc |-> disk.open_exc, self |-> self]
    ELSE IF disk.pickle_exc /= "None" THEN [exc |-> disk.pickle_exc, self |-> self]
    ELSE LET loaded == [self EXCEPT !.model = disk.artifact]
         IN  IF disk.artifact.features = "list"
             THEN [exc |-> "AttributeError", self |-> loaded]
             ELSE [exc |-> "None",
                   self |-> [loaded EXCEPT
                       !.feature_names =
                           IF disk.artifact.features = "ndarray"
                           THEN [is_none |-> FALSE, names |-> required_fields]
                           ELSE NoNames,
                       !.model_metadata =
                           [is_empty |-> FALSE,
                            model_type |-> disk.artifact.type_name,
                            loaded_at |-> now,
                            model_path |-> self.model_path]]]

\* ModelManager(model_path)
NewModelManager(model_path, disk, now) == LoadModel(NewSelf(model_path), disk, now)

-----------------------------------------------------------------------------
(* app/models/model_manager.py: ModelManager.predict                       *)

\* What one call of the artifact's predict does: raises exc, or returns value.
ArtifactExceptions == {"ValueError", "KeyError"}

MaxPrice == 2

ArtifactOutcomes ==
    {[exc |-> "None", value |-> p] : p \in 0..MaxPrice}
    \cup {[exc |-> e, value |-> 0] : e \in ArtifactExceptions}

NoResult ==
    [success |-> FALSE, predicted_price |-> 0, formatted_price |-> <<>>, confidence |-> 0,
     model_info |-> EmptyMetadata, input_features |-> <<>>,
     error |-> NoMsg, error_type |-> "None"]

\* The dict of the except branch: success False, str(e), type(e).__name__.
Failure(msg, exc) == [NoResult EXCEPT !.error = msg, !.error_type = exc]

\* One invocation of the artifact: the row it was given and what it did.
Call(row, outcome) == [row |-> row, exc |-> outcome.exc, value |-> outcome.value]

\* predict(self, input_data): the dict it returns and the invocations of the
\* artifact it made.  `outcome` is what the artifact does if it is invoked.
Predict(self, input_data, outcome) ==
    LET v == ValidateInput(input_data)
    IN  IF v.raised
        THEN [result |-> Failure(v.msg, "ValueError"), calls |-> <<>>]
        ELSE IF self.model = NoneModel
        THEN [result |-> Failure(Msg("'NoneType' object has no attribute 'predict'", <<>>),
                                 "AttributeError"),
              calls |-> <<>>]
        ELSE IF outcome.exc /= "None"
        THEN [result |-> Failure(Msg("artifact failure", <<>>), outcome.exc),
              calls |-> <<Call(input_data, outcome)>>]
        ELSE [result |->
                  [success |-> TRUE,
                   predicted_price |-> outcome.value,
                   formatted_price |-> <<"$", outcome.value>>,
                   confidence |-> CalculateConfidence(outcome.value, input_data),
                   model_info |-> self.model_metadata,
                   input_features |-> input_data,
                   error |-> NoMsg,
                   error_type |-> "None"],
              calls |-> <<Call(input_data, outcome)>>]

-----------------------------------------------------------------------------
(* app/api/routes.py                                                       *)

\* One field of VehicleDataSchema: its error message, or "" when it loads.
\* fields.Int coerces with int(); fields.Str takes the string as it is; the
\* validate lambda runs on the loaded value.
FieldError(body, field) ==
    IF field \notin DOMAIN body THEN "Missing data for required field."
    ELSE CASE field = "Year" ->
                  LET c == IntCoerce(body[field])
                  IN  IF body[field].t = "none" THEN "Field may not be null."
                      ELSE IF ~c.ok THEN "Not a valid integer."
                      ELSE IF ~(YearMin <= c.val /\ c.val <= YearMax) THEN "Invalid value."
                      ELSE ""
           [] field = "KM_Driven" ->
                  LET c == IntCoerce(body[field])
                  IN  IF body[field].t = "none" THEN "Field may not be null."
                      ELSE IF ~c.ok THEN "Not a valid integer."
                      ELSE IF ~(c.val >= KmMin) THEN "Invalid value."
                      ELSE ""
           [] field = "Brand" -> IF InList(body[field], valid_brands) THEN "" ELSE "Invalid value."
           [] field = "Model" -> IF InList(body[field], valid_models) THEN "" ELSE "Invalid value."
           [] field = "Fuel" -> IF InList(body[field], valid_fuels) THEN "" ELSE "Invalid value."
           [] field = "Seller_Type" ->
                  IF InList(body[field], valid_sellers) THEN "" ELSE "Invalid value."
           [] field = "Transmission" ->
                  IF InList(body[field], valid_transmissions) THEN "" ELSE "Invalid value."
           [] OTHER -> IF InList(body[field], valid_owners) THEN "" ELSE "Invalid value."

\* Mutant of SchemaLoad: the handler goes on with the body as it was sent, not
\* with the deserialized record.
SchemaLoad_RawBody(body) ==
    LET bad == {f \in Required : FieldError(body, f) /= ""}
    IN  IF bad /= {}
        THEN [ok |-> FALSE, messages |-> [f \in bad |-> FieldError(body, f)], data |-> <<>>]
        ELSE [ok |-> TRUE, messages |-> <<>>, data |-> body]

\* VehicleDataSchema().load(body): the ValidationError's messages (field -> text),
\* or the deserialized record, Year and KM_Driven as integers.
SchemaLoad(body) ==
    LET bad == {f \in Required : FieldError(body, f) /= ""}
    IN  IF bad /= {}
        THEN [ok |-> FALSE, messages |-> [f \in bad |-> FieldError(body, f)], data |-> <<>>]
        ELSE [ok |-> TRUE, messages |-> <<>>,
              data |-> [f \in Required |->
                           IF f \in {"Year", "KM_Driven"}
                           THEN IntV(IntCoerce(body[f]).val)
                           ELSE body[f]]]

NoResponse == [status |-> 0, body |-> NoResult]

\* A request body that is not JSON text.
NotJsonBody == [raw |-> "not json"]

\* Whether request.json parses the body; otherwise it raises BadRequest.
ParsesAsJson(body) == "raw" \notin DOMAIN body

\* predict_price(): the (body, status) it answers and the rows the artifact saw.
PredictPriceHandler(manager, json, body, outcome) ==
    IF ~json
    THEN [response |-> [status |-> 400,
                        body |-> Failure(Msg("Request must be JSON", <<>>), "ContentTypeError")],
          calls |-> <<>>]
    ELSE IF ~ParsesAsJson(body)
    \* request.json raises BadRequest inside the try; the outer except answers.
    THEN [response |-> [status |-> 500,
                        body |-> Failure(Msg("Internal server error", <<>>), "InternalError")],
          calls |-> <<>>]
    ELSE LET loaded == SchemaLoad(body)
         IN  IF ~loaded.ok
             THEN [response |-> [status |-> 400,
                                 body |-> Failure(Msg("Validation error: ", <<>>),
                                                  "ValidationError")],
                   calls |-> <<>>]
             ELSE IF ~manager.exists
             \* None.predict raises AttributeError, caught by the outer except.
             THEN [response |-> [status |-> 500,
                                 body |-> Failure(Msg("Internal server error", <<>>),
                                                  "InternalError")],
                   calls |-> <<>>]
             ELSE LET p == Predict(manager, loaded.data, outcome)
                  IN  [response |-> [status |-> IF p.result.success THEN 200 ELSE 500,
                                     body |-> p.result],
                       calls |-> p.calls]

\* None, where a model_info is expected.
NullInfo ==
    [is_null |-> TRUE, model_metadata |-> EmptyMetadata, feature_names |-> NoNames,
     model_type |-> "None", is_loaded |-> FALSE]

\* ModelManager.get_model_info(self): the dict it returns.  Its model_metadata
\* and feature_names are the manager's own objects, not copies.
GetModelInfo(self) ==
    [is_null |-> FALSE,
     model_metadata |-> self.model_metadata,
     feature_names |-> self.feature_names,
     model_type |-> IF self.model /= NoneModel THEN self.model.type_name ELSE "None",
     is_loaded |-> self.model /= NoneModel]

\* health_check(): always 200 'healthy'; model_info is None without a manager.
HealthCheckHandler(manager) ==
    LET model_info == IF manager.exists THEN GetModelInfo(manager) ELSE NullInfo
    IN  [status |-> 200,
         body |-> [status |-> "healthy",
                   model_loaded |-> IF model_info.is_null THEN FALSE ELSE model_info.is_loaded,
                   model_info |-> model_info]]

\* get_model_info() of the blueprint, GET /api/v1/model/info.
ModelInfoHandler(manager) ==
    IF ~manager.exists
    THEN [status |-> 500,
          body |-> [success |-> FALSE, error |-> "Model manager not initialized",
                    model_info |-> NullInfo]]
    ELSE [status |-> 200,
          body |-> [success |-> TRUE, error |-> "", model_info |-> GetModelInfo(manager)]]

-----------------------------------------------------------------------------
(* app/api/routes.py: init_model_manager                                   *)

\* Mutant of InitModelManagerOp: the global is reset before the construction,
\* so a failed attempt leaves it None.
InitModelManagerOp_ResetsFirst(manager, disk, now) ==
    LET built == NewModelManager(ModelPath, disk, now)
    IN  [exc |-> built.exc,
         manager |-> IF built.exc = "None" THEN built.self ELSE NoManager,
         self |-> built.self]

\* init_model_manager(): the exception it re-raises ("None" when it returns),
\* the global afterwards, and the object under construction as it was left.
InitModelManagerOp(manager, disk, now) ==
    LET built == NewModelManager(ModelPath, disk, now)
    IN  [exc |-> built.exc,
         manager |-> IF built.exc = "None" THEN built.self ELSE manager,
         self |-> built.self]

-----------------------------------------------------------------------------
(* The inputs.                                                             *)

\* tests/conftest.py: sample_vehicle_data
sample_vehicle_data ==
    [Brand |-> "Toyota", Model |-> "Sedan", Year |-> IntV(2018), KM_Driven |-> IntV(50000),
     Fuel |-> "Petrol", Seller_Type |-> "Individual", Transmission |-> "Manual",
     Owner |-> "First Owner"]

AbsentV == [t |-> "absent", n |-> 0, s |-> <<>>]
AbsentS == "<absent>"

YearVals ==
    {IntV(1899), IntV(1900), IntV(2018), IntV(2030), IntV(2031), FloatV(4061),
     StrV(<<"2", "0", "1", "8">>), StrV(<<"a", "b", "c">>), NoneV}

KmVals == {IntV(-1), IntV(0), IntV(50000), FloatV(-1), StrV(<<"-", "5">>)}

Numeric == {"Year", "KM_Driven"}

\* The mapping that holds the chosen value of every field not chosen absent.
Mapping(full) ==
    [f \in {g \in Required :
                IF g \in Numeric THEN full[g].t /= "absent" ELSE full[g] /= AbsentS}
        |-> full[f]]

\* Every mapping over the values below, any subset of the fields absent.
RawInputs ==
    {Mapping([Brand |-> b, Model |-> m, Year |-> y, KM_Driven |-> k, Fuel |-> f,
              Seller_Type |-> s, Transmission |-> t, Owner |-> o]) :
        b \in {"Toyota", "Honda", "Tesla", AbsentS},
        m \in {"Sedan", "Spaceship", AbsentS},
        y \in YearVals \cup {AbsentV},
        k \in KmVals \cup {AbsentV},
        f \in {"Petrol", "Coal", AbsentS},
        s \in {"Individual", "Broker", AbsentS},
        t \in {"Manual", "CVT", AbsentS},
        o \in {"First Owner", "Fifth Owner", AbsentS}}

\* The values a request may carry in one field.
FieldVals(f) ==
    CASE f = "Brand" -> {"Toyota", "Honda", "Tesla"}
      [] f = "Model" -> {"Sedan", "Spaceship"}
      [] f = "Year" -> YearVals
      [] f = "KM_Driven" -> KmVals
      [] f = "Fuel" -> {"Petrol", "Coal"}
      [] f = "Seller_Type" -> {"Individual", "Broker"}
      [] f = "Transmission" -> {"Manual", "CVT"}
      [] OTHER -> {"First Owner", "Fifth Owner"}

Without(d, f) == [g \in DOMAIN d \ {f} |-> d[g]]

With(d, f, v) == [g \in DOMAIN d \cup {f} |-> IF g = f THEN v ELSE d[g]]

MaxDeviations == 2

\* The sample record with at most n fields removed or given another value.
RECURSIVE Changed(_)
Changed(n) ==
    IF n = 0 THEN {sample_vehicle_data}
    ELSE LET prev == Changed(n - 1)
         IN  prev
             \cup {Without(d, f) : d \in prev, f \in Required}
             \cup UNION {{With(d, f, v) : v \in FieldVals(f)} : d \in prev, f \in Required}

\* The requests of the system specification.
SysInputs == Changed(MaxDeviations)

MaxClock == 2

MaxCallers == 2

\* The request threads of app.run(threaded=True).
Callers == 1..MaxCallers

\* A thread that is in no call of predict and holds no result.
IdleCaller == [pc |-> "idle", input |-> <<>>, result |-> NoResult, calls |-> <<>>]

NoCallers == [t \in Callers |-> IdleCaller]

\* The records the threads submit: the sample, two other valid ones and two
\* that _validate_input refuses.
CallerInputs ==
    {sample_vehicle_data,
     With(sample_vehicle_data, "Year", IntV(1900)),
     With(sample_vehicle_data, "Model", "Spaceship"),
     With(sample_vehicle_data, "Year", IntV(1899)),
     Without(sample_vehicle_data, "Owner")}

-----------------------------------------------------------------------------
(* The system: start-up, initialization and last_prediction requests.           *)

NoInit == [attempted |-> FALSE, exc |-> "None", self |-> NoManager, disk_exists |-> FALSE,
           readable |-> FALSE, at_startup |-> FALSE]

NoValidation == [valid |-> FALSE, errors |-> <<>>]
NoRaise == [raised |-> FALSE, msg |-> NoMsg]

Init ==
    /\ host = "imported"
    /\ exit_exc = "None"
    /\ model_manager = NoManager
    /\ clock = 0
    /\ init_result = NoInit
    /\ op = "none"
    /\ input = <<>>
    /\ is_json = FALSE
    /\ validation = NoValidation
    /\ raised = NoRaise
    /\ result = NoResult
    /\ response = NoResponse
    /\ artifact_calls = <<>>
    /\ last_prediction = 0
    /\ confidence = 0
    /\ callers = NoCallers

\* No operation is under way: the operations below run one at a time, each from
\* its call to its answer.
Idle == op \in {"none", "idle"}

InitRecord(r, disk, startup) ==
    [attempted |-> TRUE, exc |-> r.exc, self |-> r.self, disk_exists |-> disk.exists,
     readable |-> disk.exists /\ disk.open_exc = "None" /\ disk.pickle_exc = "None",
     at_startup |-> startup]

\* app.py main(): create_app() runs init_model_manager() and re-raises what it
\* raises; main() has no handler, so the exception ends the process.  Otherwise
\* app.run() serves.
Main(disk) ==
    /\ host = "imported"
    /\ Idle
    /\ clock < MaxClock
    /\ LET r == InitModelManagerOp(model_manager, disk, clock)
       IN  /\ model_manager' = r.manager
           /\ init_result' = InitRecord(r, disk, TRUE)
           /\ host' = IF r.exc = "None" THEN "serving" ELSE "exited"
           /\ exit_exc' = r.exc
    /\ clock' = clock + 1
    /\ op' = "main"
    /\ input' = <<>>
    /\ is_json' = FALSE
    /\ result' = NoResult
    /\ response' = NoResponse
    /\ artifact_calls' = <<>>
    /\ UNCHANGED <<validation, raised, last_prediction, confidence, callers>>

\* init_model_manager() called by a host that embeds the blueprint and handles
\* the exception itself.
InitModelManager(disk) ==
    /\ host /= "exited"
    /\ Idle
    /\ clock < MaxClock
    /\ LET r == InitModelManagerOp(model_manager, disk, clock)
       IN  /\ model_manager' = r.manager
           /\ init_result' = InitRecord(r, disk, FALSE)
    /\ clock' = clock + 1
    /\ op' = "init_model_manager"
    /\ input' = <<>>
    /\ is_json' = FALSE
    /\ result' = NoResult
    /\ response' = NoResponse
    /\ artifact_calls' = <<>>
    /\ UNCHANGED <<host, exit_exc, validation, raised, last_prediction, confidence, callers>>

\* Whether predict reaches `self.model.predict(df)`, and whether predict_price
\* does: the artifact's answer is drawn only for a call that invokes it.
Invokes(self, input_data) == ~ValidateInput(input_data).raised /\ self.model /= NoneModel

RouteInvokes(manager, json, body) ==
    /\ json
    /\ ParsesAsJson(body)
    /\ SchemaLoad(body).ok
    /\ manager.exists
    /\ Invokes(manager, SchemaLoad(body).data)

OutcomesWhen(invoked) ==
    IF invoked THEN ArtifactOutcomes ELSE {[exc |-> "None", value |-> 0]}

\* Mutant of ManagerPredict: a call whose artifact invocation raised drops the
\* model reference.
ManagerPredict_DropsModelOnFailure ==
    /\ host /= "exited"
    /\ Idle
    /\ model_manager.exists
    /\ \E d \in SysInputs :
         \E outcome \in OutcomesWhen(Invokes(model_manager, d)) :
             LET p == Predict(model_manager, d, outcome)
             IN  /\ result' = p.result
                 /\ artifact_calls' = p.calls
                 /\ input' = d
                 /\ model_manager' =
                        IF p.calls /= <<>> /\ p.calls[1].exc /= "None"
                        THEN [model_manager EXCEPT !.model = NoneModel]
                        ELSE model_manager
    /\ op' = "predict"
    /\ is_json' = FALSE
    /\ response' = NoResponse
    /\ UNCHANGED <<host, exit_exc, clock, init_result, validation, raised,
                   last_prediction, confidence, callers>>

\* model_manager.predict(d) on the installed manager, for any mapping d.
ManagerPredict ==
    /\ host /= "exited"
    /\ Idle
    /\ model_manager.exists
    /\ \E d \in SysInputs :
         \E outcome \in OutcomesWhen(Invokes(model_manager, d)) :
             LET p == Predict(model_manager, d, outcome)
             IN  /\ result' = p.result
                 /\ artifact_calls' = p.calls
                 /\ input' = d
    /\ op' = "predict"
    /\ is_json' = FALSE
    /\ response' = NoResponse
    /\ UNCHANGED <<host, exit_exc, model_manager, clock, init_result, validation, raised,
                   last_prediction, confidence, callers>>

\* POST /api/v1/predict with body d; json is whether the Content-Type says JSON.
PredictPrice ==
    /\ host /= "exited"
    /\ Idle
    /\ \E json \in BOOLEAN, d \in SysInputs \cup {NotJsonBody} :
         \E outcome \in OutcomesWhen(RouteInvokes(model_manager, json, d)) :
             LET h == PredictPriceHandler(model_manager, json, d, outcome)
             IN  /\ response' = h.response
                 /\ artifact_calls' = h.calls
                 /\ input' = d
                 /\ is_json' = json
    /\ op' = "predict_price"
    /\ result' = NoResult
    /\ UNCHANGED <<host, exit_exc, model_manager, clock, init_result, validation, raised,
                   last_prediction, confidence, callers>>

\* GET /api/v1/health
HealthCheck ==
    /\ host /= "exited"
    /\ Idle
    /\ response' = HealthCheckHandler(model_manager)
    /\ op' = "health_check"
    /\ input' = <<>>
    /\ is_json' = FALSE
    /\ result' = NoResult
    /\ artifact_calls' = <<>>
    /\ UNCHANGED <<host, exit_exc, model_manager, clock, init_result, validation, raised,
                   last_prediction, confidence, callers>>

\* GET /api/v1/model/info
ModelInfo ==
    /\ host /= "exited"
    /\ Idle
    /\ response' = ModelInfoHandler(model_manager)
    /\ op' = "model_info"
    /\ input' = <<>>
    /\ is_json' = FALSE
    /\ result' = NoResult
    /\ artifact_calls' = <<>>
    /\ UNCHANGED <<host, exit_exc, model_manager, clock, init_result, validation, raised,
                   last_prediction, confidence, callers>>

\* model_manager.get_model_info() called on the installed manager.
ManagerGetModelInfo ==
    /\ host /= "exited"
    /\ Idle
    /\ model_manager.exists
    /\ result' = GetModelInfo(model_manager)
    /\ op' = "get_model_info"
    /\ input' = <<>>
    /\ is_json' = FALSE
    /\ response' = NoResponse
    /\ artifact_calls' = <<>>
    /\ UNCHANGED <<host, exit_exc, model_manager, clock, init_result, validation, raised,
                   last_prediction, confidence, callers>>

\* The caller of predict or get_model_info empties the metadata dict it finds
\* in the answer (result['model_info'].clear()).  The answer holds
\* self.model_metadata itself, so the manager's metadata is emptied with it.
\* The route handlers pass their answer to jsonify and hand out no reference.
CallerClearsModelInfo ==
    /\ host /= "exited"
    /\ \/ /\ op = "predict"
          /\ result.success
          /\ ~result.model_info.is_empty
          /\ result' = [result EXCEPT !.model_info = EmptyMetadata]
       \/ /\ op = "get_model_info"
          /\ ~result.model_metadata.is_empty
          /\ result' = [result EXCEPT !.model_metadata = EmptyMetadata]
    /\ model_manager' = [model_manager EXCEPT !.model_metadata = EmptyMetadata]
    /\ UNCHANGED <<host, exit_exc, clock, init_result, op, input, is_json, validation,
                   raised, response, artifact_calls, last_prediction, confidence, callers>>

\* The caller takes the answer; nothing of the call stays behind.  A process
\* that has exited takes no further step.
Return ==
    /\ ~Idle
    /\ host /= "exited"
    /\ op' = "idle"
    /\ init_result' = NoInit
    /\ input' = <<>>
    /\ is_json' = FALSE
    /\ result' = NoResult
    /\ response' = NoResponse
    /\ artifact_calls' = <<>>
    /\ UNCHANGED <<host, exit_exc, model_manager, clock, validation, raised,
                   last_prediction, confidence, callers>>

Next ==
    \/ \E disk \in Disks : Main(disk)
    \/ \E disk \in Disks : InitModelManager(disk)
    \/ ManagerPredict
    \/ PredictPrice
    \/ HealthCheck
    \/ ModelInfo
    \/ ManagerGetModelInfo
    \/ CallerClearsModelInfo
    \/ Return

Spec == Init /\ [][Next]_vars

-----------------------------------------------------------------------------
(* The threaded server: calls of model_manager.predict that overlap.       *)

\* The serving process after a start-up whose load succeeded.
InitThreads ==
    /\ host = "serving"
    /\ exit_exc = "None"
    /\ model_manager \in {InitModelManagerOp(NoManager, disk, 0).manager :
                             disk \in {k \in Disks : NewModelManager(ModelPath, k, 0).exc = "None"}}
    /\ clock = 1
    /\ init_result = NoInit
    /\ op = "idle"
    /\ input = <<>>
    /\ is_json = FALSE
    /\ validation = NoValidation
    /\ raised = NoRaise
    /\ result = NoResult
    /\ response = NoResponse
    /\ artifact_calls = <<>>
    /\ last_prediction = 0
    /\ confidence = 0
    /\ callers = NoCallers

FrameThreads ==
    UNCHANGED <<host, exit_exc, clock, init_result, op, input, is_json, validation, raised,
                result, response, artifact_calls, last_prediction, confidence>>

\* Thread t calls model_manager.predict(d) and runs it up to the artifact:
\* _validate_input either raises, which ends the call with the failure dict, or
\* the thread enters self.model.predict(df).  No lock is taken.
PredictBegin(t) ==
    /\ callers[t].pc = "idle"
    /\ \E d \in CallerInputs :
         callers' = [callers EXCEPT ![t] =
             IF Invokes(model_manager, d)
             THEN [pc |-> "artifact", input |-> d, result |-> NoResult, calls |-> <<>>]
             ELSE LET p == Predict(model_manager, d, [exc |-> "None", value |-> 0])
                  IN  [pc |-> "done", input |-> d, result |-> p.result, calls |-> p.calls]]
    /\ UNCHANGED model_manager
    /\ FrameThreads

\* Mutant of PredictEnd: the record is kept in an attribute of the manager that
\* a call overlapping this one has overwritten, and the confidence is worked
\* out from that record.
PredictEnd_SharedInput(t) ==
    /\ callers[t].pc = "artifact"
    /\ \E outcome \in ArtifactOutcomes :
         LET p == Predict(model_manager, callers[t].input, outcome)
             others == {u \in Callers \ {t} : callers[u].pc = "artifact"}
             seen == IF others = {} THEN callers[t].input
                     ELSE callers[CHOOSE u \in others : TRUE].input
         IN  callers' = [callers EXCEPT ![t] =
                 [pc |-> "done", input |-> callers[t].input,
                  result |-> IF p.result.success
                             THEN [p.result EXCEPT
                                      !.confidence = CalculateConfidence(outcome.value, seen)]
                             ELSE p.result,
                  calls |-> p.calls]]
    /\ UNCHANGED model_manager
    /\ FrameThreads

\* The artifact's predict returns to thread t, or raises, and predict builds
\* the dict it returns.
PredictEnd(t) ==
    /\ callers[t].pc = "artifact"
    /\ \E outcome \in ArtifactOutcomes :
         LET p == Predict(model_manager, callers[t].input, outcome)
         IN  callers' = [callers EXCEPT ![t] =
                 [pc |-> "done", input |-> callers[t].input, result |-> p.result,
                  calls |-> p.calls]]
    /\ UNCHANGED model_manager
    /\ FrameThreads

\* Thread t is done with the result it holds.
CallerDone(t) ==
    /\ callers[t].pc = "done"
    /\ callers' = [callers EXCEPT ![t] = IdleCaller]
    /\ UNCHANGED model_manager
    /\ FrameThreads

\* Thread t empties the metadata dict of the result it holds.  Every result
\* holds the manager's own dict, so the manager and the other results see it.
CallerClears(t) ==
    /\ callers[t].pc = "done"
    /\ callers[t].result.success
    /\ ~callers[t].result.model_info.is_empty
    /\ model_manager' = [model_manager EXCEPT !.model_metadata = EmptyMetadata]
    /\ callers' = [u \in Callers |->
                      IF callers[u].pc = "done" /\ callers[u].result.success
                      THEN [callers[u] EXCEPT !.result.model_info = EmptyMetadata]
                      ELSE callers[u]]
    /\ FrameThreads

NextThreads ==
    \E t \in Callers :
        \/ PredictBegin(t)
        \/ PredictEnd(t)
        \/ CallerDone(t)
        \/ CallerClears(t)

SpecThreads == InitThreads /\ [][NextThreads]_vars

-----------------------------------------------------------------------------
(* The validators as pure functions of an arbitrary mapping.               *)

InitValidators ==
    /\ host = "imported"
    /\ exit_exc = "None"
    /\ model_manager = NoManager
    /\ clock = 0
    /\ init_result = NoInit
    /\ op = "none"
    /\ input \in RawInputs
    /\ is_json = FALSE
    /\ validation = NoValidation
    /\ raised = NoRaise
    /\ result = NoResult
    /\ response = NoResponse
    /\ artifact_calls = <<>>
    /\ last_prediction = 0
    /\ confidence = 0
    /\ callers = NoCallers

Frame ==
    UNCHANGED <<host, exit_exc, model_manager, clock, init_result, input, is_json, result,
                response, artifact_calls, last_prediction, confidence, callers>>

\* validate_vehicle_data(input)
ValidateVehicleDataCall ==
    /\ op' = "validate_vehicle_data"
    /\ validation' = validate_vehicle_data(input)
    /\ raised' = NoRaise
    /\ Frame

\* ModelManager._validate_input(input)
ValidateInputCall ==
    /\ op' = "_validate_input"
    /\ raised' = ValidateInput(input)
    /\ validation' = NoValidation
    /\ Frame

NextValidators == ValidateVehicleDataCall \/ ValidateInputCall

SpecValidators == InitValidators /\ [][NextValidators]_vars

-----------------------------------------------------------------------------
(* The confidence heuristic as a pure function.                            *)

ConfYears ==
    {-1, 0, 1899, 1900, 2005, 2009, 2010, 2014, 2015, 2018, 2020, 2023, 2024, 2030, 2031, 3000}

ConfKms == {-1, 0, 50000, 99999, 100000, 150000, 200000, 200001, 250000, 1000000}

ConfInputs ==
    {Mapping([Brand |-> b, Model |-> m, Year |-> y, KM_Driven |-> k, Fuel |-> f,
              Seller_Type |-> IF m = AbsentS THEN AbsentS ELSE "Individual",
              Transmission |-> IF m = AbsentS THEN AbsentS ELSE "Manual",
              Owner |-> IF m = AbsentS THEN AbsentS ELSE "First Owner"]) :
        b \in {"Toyota", "Tesla"},
        m \in {"Sedan", AbsentS},
        y \in {IntV(n) : n \in ConfYears} \cup {AbsentV},
        k \in {IntV(n) : n \in ConfKms} \cup {AbsentV},
        f \in {"Petrol", AbsentS}}

InitConfidence ==
    /\ host = "imported"
    /\ exit_exc = "None"
    /\ model_manager = NoManager
    /\ clock = 0
    /\ init_result = NoInit
    /\ op = "none"
    /\ input \in ConfInputs
    /\ is_json = FALSE
    /\ validation = NoValidation
    /\ raised = NoRaise
    /\ result = NoResult
    /\ response = NoResponse
    /\ artifact_calls = <<>>
    /\ last_prediction = 0
    /\ confidence = 0
    /\ callers = NoCallers

\* self._calculate_confidence(p, input)
CalculateConfidenceCall(p) ==
    /\ op' = "_calculate_confidence"
    /\ last_prediction' = p
    /\ confidence' = CalculateConfidence(p, input)
    /\ UNCHANGED <<host, exit_exc, model_manager, clock, init_result, input, is_json,
                   validation, raised, result, response, artifact_calls, callers>>

NextConfidence == \E p \in 0..MaxPrice : CalculateConfidenceCall(p)

SpecConfidence == InitConfidence /\ [][NextConfidence]_vars

-----------------------------------------------------------------------------
(* Properties.                                                             *)

AllPresent(d) == DOMAIN d = Required

\* The six categorical constraints of the schema.
CategoricalsOK(d) ==
    /\ InList(d["Brand"], valid_brands)
    /\ InList(d["Model"], valid_models)
    /\ InList(d["Fuel"], valid_fuels)
    /\ InList(d["Seller_Type"], valid_sellers)
    /\ InList(d["Transmission"], valid_transmissions)
    /\ InList(d["Owner"], valid_owners)

\* year is an integer in [1900, 2030]; kmDriven is an integer >= 0.
YearIsIntInRange(v) == v.t = "int" /\ 1900 <= v.n /\ v.n <= 2030
KmIsIntNonNegative(v) == v.t = "int" /\ v.n >= 0

\* A record that satisfies all eight constraints of the schema.
SchemaOK(d) ==
    /\ AllPresent(d)
    /\ YearIsIntInRange(d["Year"])
    /\ KmIsIntNonNegative(d["KM_Driven"])
    /\ CategoricalsOK(d)

\* C1: ModelManager.predict answers every mapping that violates a constraint of
\* the eight-field schema with a failure and without invoking the artifact, and
\* the artifact is only ever invoked with a record that satisfies all eight.
C1_InvalidNeverReachesArtifact ==
    op = "predict" =>
        /\ ~SchemaOK(input) => (~result.success /\ artifact_calls = <<>>)
        /\ \A i \in 1..Len(artifact_calls) : SchemaOK(artifact_calls[i].row)

\* C2 as stated: with all eight fields present, validate_vehicle_data reports
\* valid exactly when year is an integer in [1900, 2030], kmDriven an integer
\* >= 0 and every categorical a member of its set.
C2_ValidIffIntegerInRange ==
    (op = "validate_vehicle_data" /\ AllPresent(input)) =>
        (validation.valid <=>
            /\ YearIsIntInRange(input["Year"])
            /\ KmIsIntNonNegative(input["KM_Driven"])
            /\ CategoricalsOK(input))

\* int(v) succeeds and its value lies in the range.
CoercesIntoYearRange(v) ==
    IntCoerce(v).ok /\ 1900 <= IntCoerce(v).val /\ IntCoerce(v).val <= 2030
CoercesNonNegative(v) == IntCoerce(v).ok /\ IntCoerce(v).val >= 0

\* C2, amended: with all eight fields present, validate_vehicle_data reports
\* valid exactly when int(year) succeeds with a value in [1900, 2030],
\* int(kmDriven) succeeds with a value >= 0, and every categorical is a member
\* of its set; 1899, 2031 and -1 are rejected, 1900, 2030 and 0 accepted.
C2_ValidIffCoercesInRange ==
    (op = "validate_vehicle_data" /\ AllPresent(input)) =>
        /\ validation.valid <=>
               /\ CoercesIntoYearRange(input["Year"])
               /\ CoercesNonNegative(input["KM_Driven"])
               /\ CategoricalsOK(input)
        /\ input["Year"] \in {IntV(1899), IntV(2031)} => ~validation.valid
        /\ input["KM_Driven"] = IntV(-1) => ~validation.valid
        /\ (/\ input["Year"] \in {IntV(1900), IntV(2030)}
            /\ input["KM_Driven"] = IntV(0)
            /\ CategoricalsOK(input)) => validation.valid

\* A float above 2030 that int() truncates to 2030 is reported valid.
C2_Witness ==
    /\ op = "validate_vehicle_data"
    /\ AllPresent(input)
    /\ input["Year"] = FloatV(4061)
    /\ input["KM_Driven"] = IntV(0)
    /\ validation.valid

SeqSet(seq) == {seq[i] : i \in 1..Len(seq)}

\* C3: a mapping that omits exactly the fields S, S not empty, fails with a
\* missing-fields error that enumerates exactly S, and with no range or enum
\* error, from validate_vehicle_data and from _validate_input alike.
C3_MissingFieldsExact ==
    LET S == Required \ DOMAIN input
    IN  S /= {} =>
            /\ op = "validate_vehicle_data" =>
                   /\ ~validation.valid
                   /\ Len(validation.errors) = Cardinality(S)
                   /\ \A i \in 1..Len(validation.errors) :
                          /\ validation.errors[i].text = "Missing required field: "
                          /\ Len(validation.errors[i].arg) = 1
                   /\ {validation.errors[i].arg[1] : i \in 1..Len(validation.errors)} = S
            /\ op = "_validate_input" =>
                   /\ raised.raised
                   /\ raised.msg.text = "Missing required fields: "
                   /\ SeqSet(raised.msg.arg) = S
                   /\ Len(raised.msg.arg) = Cardinality(S)

\* Two fields omitted while a present field holds a value outside its set.
C3_Witness ==
    /\ op = "validate_vehicle_data"
    /\ Required \ DOMAIN input = {"Year", "Owner"}
    /\ input["Brand"] = "Tesla"
    /\ Len(validation.errors) = 2

\* The field a validation message of _validate_input is about.
About(msg) ==
    CASE msg.text = "Year must be a number between 1900 and 2030" -> "Year"
      [] msg.text = "KM_Driven must be a non-negative number" -> "KM_Driven"
      [] msg.text = "Invalid brand. Must be one of: " -> "Brand"
      [] msg.text = "Invalid fuel type. Must be one of: " -> "Fuel"
      [] OTHER -> "?"

\* Whether field f of a full record meets its constraint.
FieldOK(d, f) ==
    CASE f = "Year" -> YearIsIntInRange(d[f])
      [] f = "KM_Driven" -> KmIsIntNonNegative(d[f])
      [] f = "Brand" -> InList(d[f], valid_brands)
      [] f = "Model" -> InList(d[f], valid_models)
      [] f = "Fuel" -> InList(d[f], valid_fuels)
      [] f = "Seller_Type" -> InList(d[f], valid_sellers)
      [] f = "Transmission" -> InList(d[f], valid_transmissions)
      [] OTHER -> InList(d[f], valid_owners)

ViolatedFields(d) == {f \in Required : ~FieldOK(d, f)}

\* C4: validation does not short-circuit; in particular the failure message
\* predict returns for a record with all eight fields reports every violated
\* constraint, not only the first one met.
C4_PredictReportsEveryViolation ==
    (op = "predict" /\ AllPresent(input) /\ ~result.success /\ artifact_calls = <<>>) =>
        ViolatedFields(input) \subseteq {About(result.error)}

\* The heuristic as the specification words it, on integers.
SpecYearTerm(y) == IF 2015 <= y /\ y <= 2023 THEN 10 ELSE IF y < 2010 THEN -10 ELSE 0
SpecKmTerm(k) == IF k < 100000 THEN 5 ELSE IF k > 200000 THEN -5 ELSE 0
Clamp(x, lo, hi) == IF x < lo THEN lo ELSE IF x > hi THEN hi ELSE x

\* C5: the confidence is clamp(0.8 + a(year) + b(km), 0.1, 1.0), a function of
\* (year, km) alone, whatever the prediction and the other fields; it is 0.95
\* at (2020, 50000), 0.65 at (2005, 250000), 0.8 at (2024, 150000), and always
\* within [0.1, 1.0].  In hundredths.
C5_ConfidenceFormula ==
    op = "_calculate_confidence" =>
        LET y == IF "Year" \in DOMAIN input THEN input["Year"].n ELSE 2020
            k == IF "KM_Driven" \in DOMAIN input THEN input["KM_Driven"].n ELSE 50000
        IN  /\ confidence = Clamp(80 + SpecYearTerm(y) + SpecKmTerm(k), 10, 100)
            /\ 10 <= confidence /\ confidence <= 100
            /\ (y = 2020 /\ k = 50000) => confidence = 95
            /\ (y = 2005 /\ k = 250000) => confidence = 65
            /\ (y = 2024 /\ k = 150000) => confidence = 80

\* An old, high-mileage car scored for a non-zero prediction.
C5_Witness ==
    /\ op = "_calculate_confidence"
    /\ DOMAIN input = {"Brand", "Year", "KM_Driven"}
    /\ input["Year"] = IntV(2005)
    /\ input["KM_Driven"] = IntV(250000)
    /\ last_prediction = 1
    /\ confidence = 65

\* The sample record was submitted to an initialized orchestrator, by a direct
\* call or as a JSON request, and the artifact did not raise or answer a
\* non-positive number.
SampleServed ==
    /\ \/ op = "predict"
       \/ op = "predict_price" /\ is_json
    /\ input = sample_vehicle_data
    /\ model_manager.exists
    /\ \A i \in 1..Len(artifact_calls) :
           artifact_calls[i].exc = "None" /\ artifact_calls[i].value > 0

Answer == IF op = "predict" THEN result ELSE response.body

\* C6 as stated: the sample record yields a success with confidence 0.9 and a
\* price above 0.
C6_SampleConfidence090 ==
    SampleServed =>
        /\ Answer.success
        /\ Answer.confidence = 90
        /\ Answer.predicted_price > 0

\* C6, amended: the sample record yields a success with confidence 0.95 and a
\* price above 0 (status 200 over HTTP).
C6_SampleConfidence095 ==
    SampleServed =>
        /\ Answer.success
        /\ Answer.confidence = 95
        /\ Answer.predicted_price > 0
        /\ op = "predict_price" => response.status = 200

\* The sample record answered over HTTP with a success.
C6_Witness ==
    /\ op = "predict_price"
    /\ is_json
    /\ input = sample_vehicle_data
    /\ response.status = 200
    /\ response.body.success
    /\ response.body.confidence = 95
    /\ response.body.predicted_price = 1

\* C7: while initialization has not succeeded, a predict request, an otherwise
\* valid record included, is answered with a failure tagged NotInitialized and
\* the artifact is not invoked.
C7_NotInitializedTag ==
    (op = "predict_price" /\ ~model_manager.exists /\ is_json /\ SchemaOK(input)) =>
        /\ ~response.body.success
        /\ response.body.error_type = "NotInitialized"
        /\ artifact_calls = <<>>

\* C8: a load failure at start-up does not end the process: start-up completes,
\* the service stays not ready, and no request is answered with a prediction
\* before an initialization has succeeded.
C8_LoadFailureKeepsProcessAlive ==
    /\ (init_result.attempted /\ init_result.at_startup /\ init_result.exc /= "None") =>
           (host /= "exited" /\ ~model_manager.exists)
    /\ (op = "predict_price" /\ response.status = 200) => model_manager.exists

ValidationFailureTag ==
    Predict(model_manager, <<>>, [exc |-> "None", value |-> 0]).result.error_type

\* C10: every failing predict call returns a failure whose error kind tells the
\* failure class: a failure of the artifact invocation never carries the tag of
\* a validation failure, whatever the artifact raises.
C10_FailureClassesDistinct ==
    (op = "predict" /\ artifact_calls /= <<>> /\ artifact_calls[1].exc /= "None") =>
        /\ ~result.success
        /\ result.error_type /= "None"
        /\ result.error_type /= ValidationFailureTag

\* C11: a predict call whose artifact invocation raised leaves the installed
\* manager (model reference, feature names, metadata) as it was, so the result
\* of a later call is not affected by it.
C11_FailingCallLeavesManager ==
    [][(/\ op' \in {"predict", "predict_price"}
        /\ artifact_calls' /= <<>>
        /\ artifact_calls'[1].exc /= "None")
           => model_manager' = model_manager]_vars

\* The artifact raised on a loaded manager whose metadata is in place.
C11_Witness ==
    /\ op = "predict"
    /\ artifact_calls /= <<>>
    /\ artifact_calls[1].exc = "KeyError"
    /\ ~result.success
    /\ model_manager.model /= NoneModel
    /\ ~model_manager.model_metadata.is_empty

\* C12: once a load has succeeded, the metadata (type name, timestamp, path)
\* and the model reference keep their value through every predict, info and
\* health request and through whatever the callers do with the answers.
C12_MetadataNeverChanges ==
    [][(model_manager.exists /\ op' \notin {"main", "init_model_manager"})
           => /\ model_manager'.model_metadata = model_manager.model_metadata
              /\ model_manager'.model = model_manager.model]_vars

\* C13: the model-info request answers null while no initialization has
\* succeeded and the recorded metadata afterwards, and changes no state.
C13_NullBeforeInitialization ==
    /\ (op = "model_info" /\ ~model_manager.exists) =>
           (response.status = 200 /\ response.body.success /\ response.body.model_info.is_null)
    /\ (op = "model_info" /\ model_manager.exists) =>
           (response.status = 200
            /\ response.body.model_info.model_metadata = model_manager.model_metadata)

\* C14: predict calls of parallel request threads never overlap inside the
\* artifact: at most one thread is in self.model.predict at a time.
C14_ArtifactCallsNeverOverlap ==
    Cardinality({t \in Callers : callers[t].pc = "artifact"}) <= 1

\* C15: two predict calls on the same manager with the same valid record, for
\* which the artifact gave the same number, hold the same price and the same
\* confidence, whatever calls were made and whatever was done with their
\* results in between.
C15_RepeatedCallSameAnswer ==
    \A t, u \in Callers :
        (/\ callers[t].pc = "done" /\ callers[t].result.success
         /\ callers[u].pc = "done" /\ callers[u].result.success
         /\ callers[t].input = callers[u].input
         /\ callers[t].calls[1].value = callers[u].calls[1].value)
            => /\ callers[t].result.predicted_price = callers[u].result.predicted_price
               /\ callers[t].result.confidence = callers[u].result.confidence

\* Two answers for the sample record, the metadata emptied between the calls.
C15_Witness ==
    /\ callers[1].pc = "done" /\ callers[1].input = sample_vehicle_data
    /\ callers[1].result.success /\ callers[1].result.predicted_price = 1
    /\ callers[2].pc = "done" /\ callers[2].input = sample_vehicle_data
    /\ callers[2].result.success /\ callers[2].result.predicted_price = 1
    /\ callers[2].result.confidence = 95
    /\ model_manager.model_metadata.is_empty

\* A JSON body that omits a required field or carries a number out of range or
\* a value that is no member of its set.
OmitsOrOutOfRange(d) ==
    \/ DOMAIN d /= Required
    \/ IsNumber(d["Year"]) /\ (Halves(d["Year"]) < 2 * 1900 \/ Halves(d["Year"]) > 2 * 2030)
    \/ IsNumber(d["KM_Driven"]) /\ Halves(d["KM_Driven"]) < 0
    \/ ~CategoricalsOK(d)

\* C16: a POST to /api/v1/predict whose body is not JSON, or whose JSON body
\* omits a required field or carries an out-of-range or non-member value, is
\* answered 400 with success false and an error message, and the manager's
\* predict is not reached.
C16_BadRequestAnswered400 ==
    (op = "predict_price"
     /\ (~is_json \/ ~ParsesAsJson(input) \/ OmitsOrOutOfRange(input))) =>
        /\ response.status = 400
        /\ ~response.body.success
        /\ response.body.error /= NoMsg
        /\ artifact_calls = <<>>

\* C17: every record VehicleDataSchema loads is accepted by _validate_input, so
\* a request that passed the 400 gate gets a 500 from predict only when the
\* artifact was invoked and raised.
C17_SchemaAcceptedPassesValidateInput ==
    (op = "predict_price" /\ is_json /\ ParsesAsJson(input) /\ SchemaLoad(input).ok) =>
        /\ ~ValidateInput(SchemaLoad(input).data).raised
        /\ (model_manager.exists /\ response.status = 500) =>
               /\ artifact_calls /= <<>>
               /\ artifact_calls[1].exc /= "None"
               /\ response.body.error_type = artifact_calls[1].exc
        /\ (model_manager.exists /\ response.status /= 500) =>
               (response.status = 200 /\ response.body.success)

\* A body whose Year is the string "2018" and whose KM_Driven is -0.5, loaded
\* by the schema as 2018 and 0 and answered with a prediction.
C17_Witness ==
    /\ op = "predict_price"
    /\ model_manager.exists
    /\ DOMAIN input = Required
    /\ input["Year"] = StrV(<<"2", "0", "1", "8">>)
    /\ input["KM_Driven"] = FloatV(-1)
    /\ response.status = 200
    /\ response.body.input_features["Year"] = IntV(2018)
    /\ response.body.input_features["KM_Driven"] = IntV(0)

\* C18: for a record that _validate_input accepts, the sum 0.8 + adjustments is
\* already between 0.65 and 0.95, the clamp leaves it as it is, the confidence
\* is one of 0.65, 0.70, 0.75, 0.80, 0.85, 0.90, 0.95, and Year and KM_Driven
\* are present, so the defaults 2020 and 50000 are not used.  In hundredths.
C18_ValidatedConfidenceUnclamped ==
    (op = "_calculate_confidence" /\ ~ValidateInput(input).raised) =>
        /\ {"Year", "KM_Driven"} \subseteq DOMAIN input
        /\ LET sum == BaseConfidence + YearAdjust(input["Year"]) + KmAdjust(input["KM_Driven"])
           IN  /\ 65 <= sum /\ sum <= 95
               /\ confidence = sum
        /\ confidence \in {65, 70, 75, 80, 85, 90, 95}
        /\ confidence = CalculateConfidence(last_prediction,
                                            [f \in {"Year", "KM_Driven"} |-> input[f]])

\* The lowest of the seven values, for an accepted record of 1900 with a
\* million kilometres.
C18_Witness ==
    /\ op = "_calculate_confidence"
    /\ ~ValidateInput(input).raised
    /\ input["Year"] = IntV(1900)
    /\ input["KM_Driven"] = IntV(1000000)
    /\ confidence = 65

\* C19: init_model_manager installs a manager only when its construction
\* succeeded: a successful attempt installs the manager it built, a failed one
\* leaves the global as it was and re-raises what the load raised.
C19_InstalledOnlyOnSuccess ==
    [][(op' \in {"main", "init_model_manager"} /\ init_result'.attempted /\ clock' /= clock)
           => IF init_result'.exc = "None"
              THEN /\ model_manager' = init_result'.self
                   /\ model_manager'.exists
                   /\ model_manager'.model_metadata.loaded_at = clock
              ELSE /\ model_manager' = model_manager
                   /\ op' = "main" => exit_exc' = init_result'.exc]_vars

\* A missing file met while the manager of the first attempt is installed.
C19_Witness ==
    /\ op = "init_model_manager"
    /\ init_result.attempted
    /\ init_result.exc = "FileNotFoundError"
    /\ model_manager.exists
    /\ model_manager.model_metadata.loaded_at = 0
    /\ clock = 2

=============================================================================
